---- MODULE Spec2Model ----
(***************************************************************************)
(* ParamsSanitizer (src/params-sanitizer.ts): the constructor, check,      *)
(* values and parseValue, over a small model of JavaScript values.         *)
(*                                                                         *)
(* A JavaScript value is a tagged tuple.  A string is a sequence of        *)
(* lexemes ("1", "x", "true", ",", ...), the string being their            *)
(* concatenation, so that split and the numeric conversion are computed;   *)
(* the text of a JSON document is kept as Json(v), the string              *)
(* JSON.stringify(v).  An object is the sequence of its <<key, value>>     *)
(* pairs in Object.keys order.  Field names contain no dot.                *)
(***************************************************************************)
EXTENDS Integers, Sequences, FiniteSets, TLC

VARIABLES
  given,        \* what the caller built: the schema, the options, the request
  definitions,  \* this.definitions
  options,      \* this.options
  req,          \* the caller's request object, as it stands now
  lastCall      \* the last call made: its operation, argument and outcome

vars == <<given, definitions, options, req, lastCall>>

----------------------------------------------------------------------------
(* JavaScript values *)

Undef == <<"undefined">>
Null == <<"null">>
NaN == <<"nan">>
Str(s) == <<"str", s>>
Num(n) == <<"num", n>>
Bool(b) == <<"bool", b>>
Obj(pairs) == <<"obj", pairs>>
Json(v) == <<"json", v>>
Arr(elems) == <<"arr", elems>>

Tag(v) == v[1]
IsString(v) == Tag(v) \in {"str", "json"}
IsObj(v) == Tag(v) = "obj"
\* value == null in the code: null or undefined
IsNullish(v) == Tag(v) \in {"undefined", "null"}

NoThrow == "none"

\* Object.keys(o) of a mapping, in order; a number or a boolean has no keys.
ObjectKeys(o) ==
  IF IsObj(o) THEN [i \in 1..Len(o[2]) |-> o[2][i][1]] ELSE <<>>

Includes(seq, x) == \E i \in 1..Len(seq) : seq[i] = x

\* o[k]: undefined when o has no such key.
Lookup(o, k) ==
  IF IsObj(o) /\ Includes(ObjectKeys(o), k)
  THEN o[2][CHOOSE i \in 1..Len(o[2]) : o[2][i][1] = k][2]
  ELSE Undef

\* o[k] = v: overwrites the key where it stands, or appends it.
Store(o, k, v) ==
  IF Includes(ObjectKeys(o), k)
  THEN Obj([i \in 1..Len(o[2]) |-> IF o[2][i][1] = k THEN <<k, v>> ELSE o[2][i]])
  ELSE Obj(Append(o[2], <<k, v>>))

\* x || {}
OrEmpty(x) == IF IsNullish(x) THEN Obj(<<>>) ELSE x

Digits == {"0", "1"}
DigitValue(d) == IF d = "1" THEN 1 ELSE 0

RECURSIVE DigitsValue(_)
DigitsValue(s) ==
  IF s = <<>> THEN 0
  ELSE 10 * DigitsValue(SubSeq(s, 1, Len(s) - 1)) + DigitValue(s[Len(s)])

\* +v
ToNumber(v) ==
  CASE Tag(v) = "num" -> v
    [] Tag(v) = "bool" -> Num(IF v[2] THEN 1 ELSE 0)
    [] Tag(v) = "null" -> Num(0)
    [] Tag(v) = "str" ->
         IF \A i \in 1..Len(v[2]) : v[2][i] \in Digits
         THEN Num(DigitsValue(v[2])) ELSE NaN
    [] OTHER -> NaN

IsNaN(n) == n = NaN

\* new Date(v) has a time value: ISO dates, numbers, booleans and null do;
\* V8 also reads a string of digits as a date.
DateValid(v) ==
  CASE Tag(v) \in {"num", "bool", "null"} -> TRUE
    [] Tag(v) = "str" ->
         \/ v[2] = <<"2020-01-01">>
         \/ (v[2] # <<>> /\ \A i \in 1..Len(v[2]) : v[2][i] \in Digits)
    [] OTHER -> FALSE

NewDate(v) == <<"date", IF DateValid(v) THEN v ELSE NaN>>

RECURSIVE SplitLexemes(_, _, _)
SplitLexemes(s, div, cur) ==
  IF s = <<>> THEN <<Str(cur)>>
  ELSE IF Head(s) = div THEN <<Str(cur)>> \o SplitLexemes(Tail(s), div, <<>>)
  ELSE SplitLexemes(Tail(s), div, Append(cur, Head(s)))

\* s.split(div) of a string s; divs holds the divider, or nothing when the
\* divider is undefined, which gives the whole string.  The JSON texts of the
\* model are never split at a divider.
Split(s, divs) ==
  IF Tag(s) = "str" /\ divs # <<>> THEN SplitLexemes(s[2], divs[1], <<>>) ELSE <<s>>

\* JSON.parse(v), v converted to a string first: [value, throw]
JSONParse(v) ==
  CASE Tag(v) = "json" -> [value |-> v[2], throw |-> NoThrow]
    [] Tag(v) = "str" /\ v[2] # <<>> /\ (\A i \in 1..Len(v[2]) : v[2][i] \in Digits) ->
         [value |-> ToNumber(v), throw |-> NoThrow]
    [] Tag(v) = "str" /\ v[2] \in {<<"true">>, <<"false">>} ->
         [value |-> Bool(v[2] = <<"true">>), throw |-> NoThrow]
    [] Tag(v) \in {"num", "bool", "null"} -> [value |-> v, throw |-> NoThrow]
    [] OTHER -> [value |-> Undef, throw |-> "SyntaxError"]

----------------------------------------------------------------------------
(* Definitions and the constructor *)

Locations == <<"query", "path", "body">>
\* the Request property check and values read for each location
ReqField(where) ==
  CASE where = "query" -> "query" [] where = "path" -> "params" [] OTHER -> "body"

defaultParamsValues ==
  [name |-> "", type |-> "string", isArray |-> FALSE, elementsDivider |-> ",",
   default |-> Null, required |-> FALSE, in |-> "query"]

\* faulty variant: strict mode on by default
defaultOptions_strict == [strict |-> TRUE]

defaultOptions == [strict |-> FALSE]

\* Object.assign({}, a, b) for records
ObjectAssign(a, b) ==
  [f \in DOMAIN a \cup DOMAIN b |-> IF f \in DOMAIN b THEN b[f] ELSE a[f]]

Constructor(data, opts) ==
  [definitions |-> [i \in 1..Len(data) |-> ObjectAssign(defaultParamsValues, data[i])],
   options |-> ObjectAssign(defaultOptions, opts)]

\* d.f as a condition: an omitted attribute is undefined, which is falsy
Flag(d, f) == f \in DOMAIN d /\ d[f] = TRUE
\* faulty variant: the default is never read
DefaultOf_unset(d) == Undef

\* d.default: undefined when the attribute is omitted
DefaultOf(d) == IF "default" \in DOMAIN d THEN d.default ELSE Undef
\* d.elementsDivider, as Split takes it
Divider(d) == IF "elementsDivider" \in DOMAIN d THEN <<d.elementsDivider>> ELSE <<>>
\* d.properties || []
PropertiesOf(d) == IF "properties" \in DOMAIN d THEN d.properties ELSE <<>>

----------------------------------------------------------------------------
(* check *)

Throw(e) == [throw |-> e]
Returned(r) == r.throw = NoThrow

\* The Request handed to a nested check: only the parent's location is set.
FakeReq(where, value) ==
  [[query |-> Undef, params |-> Undef, body |-> Undef, path |-> Undef]
     EXCEPT ![where] = value]

\* list.find(u => u.where === where)?.params.push(x)
PushFirst(list, where, x) ==
  IF \E i \in 1..Len(list) : list[i].where = where
  THEN LET i == CHOOSE i \in 1..Len(list) :
                  /\ list[i].where = where
                  /\ \A j \in 1..(i - 1) : list[j].where # where
       IN [list EXCEPT ![i].params = Append(@, x)]
  ELSE list

\* faulty variant: looks at the call's own three entries only, not at the
\* entries merged in from nested checks
AnyParams_own(list) == \E i \in 1..3 : Len(list[i].params) > 0

\* list.map(m => m.params.length).filter(m => m > 0).length > 0
AnyParams(list) == \E i \in 1..Len(list) : Len(list[i].params) > 0

RECURSIVE Prefixed(_, _)
Prefixed(path, ds) ==
  IF ds = <<>> THEN <<>> ELSE <<path \o Head(ds).name>> \o Prefixed(path, Tail(ds))

\* the missing pass for one location
MissingOf(defs, where, keys, path) ==
  [where |-> where,
   params |-> Prefixed(path, SelectSeq(defs, LAMBDA d :
                 d.in = where /\ Flag(d, "required") /\ ~Includes(keys, d.name)))]

BooleanForms ==
  {Str(<<"true">>), Str(<<"false">>), Str(<<"0">>), Str(<<"1">>),
   Num(0), Num(1), Bool(TRUE), Bool(FALSE)}

\* the type rules of check: "ok", "malformed", or the error a rule raises
TypeRule(def, value) ==
  CASE def.type = "number" /\ Flag(def, "isArray") ->
         IF ~IsString(value) THEN "TypeError"
         ELSE LET values == Split(value, Divider(def))
              IN IF \A i \in 1..Len(values) : ~IsNaN(ToNumber(values[i]))
                 THEN "ok" ELSE "malformed"
    [] def.type = "number" /\ ~Flag(def, "isArray") ->
         IF IsNaN(ToNumber(value)) THEN "malformed" ELSE "ok"
    [] def.type = "date" -> IF DateValid(value) THEN "ok" ELSE "malformed"
    [] def.type = "boolean" -> IF value \in BooleanForms THEN "ok" ELSE "malformed"
    [] OTHER -> "ok"

RECURSIVE check(_, _, _), checkKeys(_, _, _, _, _)

\* the body of Object.keys(params).forEach for one key
checkKey(self, defs, path, st, item) ==
  LET where == item[1]
      params == item[2]
      name == item[3]
      found == SelectSeq(defs, LAMBDA d : d.in = where /\ d.name = name)
      def == found[1]
      value == Lookup(params, name)
      rule == TypeRule(def, value)
      parsed == JSONParse(value)
      status == check(self, FakeReq(def.in, parsed.value), <<name, def.properties>>)
  IN
  IF found = <<>>
  THEN IF Flag(self.options, "strict")
       THEN [st EXCEPT !.unknown = PushFirst(@, where, path \o name)]
       ELSE st
  ELSE IF \E i \in 1..Len(st.missing) :
            st.missing[i].where = where /\ Includes(st.missing[i].params, path \o name)
  THEN st
  ELSE IF rule = "malformed"
  THEN [st EXCEPT !.malformed = PushFirst(@, where, path \o name)]
  ELSE IF rule # "ok"
  THEN [st EXCEPT !.throw = rule]
  ELSE IF def.type = "object" /\ "properties" \in DOMAIN def
  THEN IF ~Returned(parsed) THEN [st EXCEPT !.throw = parsed.throw]
       ELSE IF ~Returned(status) THEN [st EXCEPT !.throw = status.throw]
       ELSE IF ~status.status
       THEN [st EXCEPT !.missing = @ \o status.missing,
                       !.malformed = @ \o status.malformed,
                       !.unknown = @ \o status.unknown]
       ELSE st
  ELSE st

checkKeys(self, defs, path, items, st) ==
  IF items = <<>> \/ st.throw # NoThrow THEN st
  ELSE checkKeys(self, defs, path, Tail(items),
                 checkKey(self, defs, path, st, Head(items)))

\* the keys of one location's mapping, each with its location and mapping
ItemsOf(request, where) ==
  LET params == OrEmpty(request[ReqField(where)])
      keys == ObjectKeys(params)
  IN [k \in 1..Len(keys) |-> <<where, params, keys[k]>>]

check(self, request, parent) ==
  LET defs == IF parent = <<>> THEN self.definitions ELSE parent[2]
      path == IF parent = <<>> THEN "" ELSE parent[1] \o "."
      missing == [i \in 1..3 |->
                   MissingOf(defs, Locations[i],
                             ObjectKeys(OrEmpty(request[ReqField(Locations[i])])), path)]
      empty == [i \in 1..3 |-> [where |-> Locations[i], params |-> <<>>]]
      items == ItemsOf(request, "query") \o ItemsOf(request, "path")
                 \o ItemsOf(request, "body")
      st == checkKeys(self, defs, path, items,
                      [missing |-> missing, unknown |-> empty, malformed |-> empty,
                       throw |-> NoThrow])
  IN IF st.throw # NoThrow THEN Throw(st.throw)
     ELSE [status |-> ~(AnyParams(st.missing) \/ AnyParams(st.unknown)
                          \/ AnyParams(st.malformed)),
           unknown |-> st.unknown, missing |-> st.missing,
           malformed |-> st.malformed, throw |-> NoThrow]

----------------------------------------------------------------------------
(* values and parseValue *)

TrueForms == {Bool(TRUE), Str(<<"true">>), Num(1), Str(<<"1">>)}

RECURSIVE parseValue(_, _), parseProperties(_, _)

\* parseValue(value, def): [value, heap, throw], where value is what the call
\* returns and heap is what the caller's own value holds after the call (the
\* code overwrites the properties of an already-structured value in place).
parseValue(value, def) ==
  LET done(v) == [value |-> v, heap |-> value, throw |-> NoThrow]
      fail(e) == [value |-> Undef, heap |-> value, throw |-> e]
      values == Split(value, Divider(def))
      parsed == IF IsString(value) THEN JSONParse(value)
                ELSE [value |-> value, throw |-> NoThrow]
      props == parseProperties(parsed.value, PropertiesOf(def))
  IN
  IF IsNullish(value) THEN done(DefaultOf(def))
  ELSE CASE def.type = "number" ->
              IF Flag(def, "isArray")
              THEN IF ~IsString(value) THEN fail("TypeError")
                   ELSE done(Arr([i \in 1..Len(values) |-> ToNumber(values[i])]))
              ELSE done(ToNumber(value))
         [] def.type = "date" -> done(NewDate(value))
         [] def.type = "boolean" ->
              IF Flag(def, "isArray")
              THEN IF ~IsString(value) THEN fail("TypeError")
                   ELSE done(Arr([i \in 1..Len(values) |->
                                   Bool(values[i] \in {Str(<<"true">>), Str(<<"1">>)})]))
              ELSE done(Bool(value \in TrueForms))
         [] def.type = "object" ->
              IF ~Returned(parsed) THEN fail(parsed.throw)
              ELSE [value |-> IF Returned(props) THEN props.obj ELSE Undef,
                    heap |-> IF IsObj(value) THEN props.obj ELSE value,
                    throw |-> props.throw]
         [] OTHER ->
              IF Flag(def, "isArray")
              THEN IF ~IsString(value) THEN fail("TypeError") ELSE done(Arr(values))
              ELSE done(value)

\* for (const ddef of def.properties || []) ...: [obj, throw]
parseProperties(objValue, props) ==
  LET ddef == Head(props)
      val == Lookup(objValue, ddef.name)
      r == parseValue(val, ddef)
  IN
  IF props = <<>> THEN [obj |-> objValue, throw |-> NoThrow]
  ELSE IF IsNullish(objValue) THEN [obj |-> objValue, throw |-> "TypeError"]
  ELSE IF ~Returned(r)
  THEN [obj |-> IF IsObj(val) THEN Store(objValue, ddef.name, r.heap) ELSE objValue,
        throw |-> r.throw]
  \* the module is strict code: a property of a number or boolean cannot be set
  ELSE IF ~IsObj(objValue) THEN [obj |-> objValue, throw |-> "TypeError"]
  ELSE parseProperties(Store(objValue, ddef.name, r.value), Tail(props))

RECURSIVE valuesLoop(_, _)

\* this.definitions.forEach(def => ...): [obj, req, throw]
valuesLoop(defs, st) ==
  LET def == Head(defs)
      field == ReqField(def.in)
      p == st.req[field]
      raw == Lookup(p, def.name)
      r == parseValue(raw, def)
      req2 == IF IsObj(raw) THEN [st.req EXCEPT ![field] = Store(p, def.name, r.heap)]
              ELSE st.req
  IN
  IF defs = <<>> \/ st.throw # NoThrow THEN st
  ELSE IF IsNullish(p) THEN [st EXCEPT !.throw = "TypeError"]
  ELSE IF ~Returned(r) THEN [st EXCEPT !.req = req2, !.throw = r.throw]
  ELSE valuesLoop(Tail(defs),
         [st EXCEPT !.req = req2,
                    !.obj = IF IsNullish(r.value) THEN @
                            ELSE [@ EXCEPT ![def.in] = Store(@, def.name, r.value)]])

\* values(req): [out, req], out the ValueResult or the error raised, req the
\* caller's request after the call
values(self, request) ==
  LET st == valuesLoop(self.definitions,
              [obj |-> [query |-> Obj(<<>>), path |-> Obj(<<>>), body |-> Obj(<<>>),
                        throw |-> NoThrow],
               req |-> request, throw |-> NoThrow])
  IN [out |-> IF st.throw # NoThrow THEN Throw(st.throw) ELSE st.obj, req |-> st.req]

----------------------------------------------------------------------------
(* The schemas and requests the sanitizer is run on *)

\* the deepest nesting of definitions: a, a.b, a.b.c
MaxDepth == 3
\* the most top-level definitions of a schema
MaxDefs == 2

LevelName(i) == <<"a", "b", "c", "d", "e", "f">>[i]
LocationSet == {"query", "path", "body"}
NoAttrs == <<>>

\* type, isArray and elementsDivider as a schema author writes them
LeafKinds ==
  {[type |-> "string"], [type |-> "string", isArray |-> TRUE],
   [type |-> "number"], [type |-> "number", isArray |-> TRUE],
   [type |-> "number", isArray |-> TRUE, elementsDivider |-> "|"],
   [type |-> "boolean"], [type |-> "boolean", isArray |-> TRUE],
   [type |-> "date"], [type |-> "object"]}

TopLeaves(name) ==
  {ObjectAssign(ObjectAssign(k, [name |-> name, in |-> L]), x) :
     k \in LeafKinds, L \in LocationSet,
     x \in {NoAttrs, [required |-> TRUE], [default |-> Str(<<"d">>)]}}

\* nested definitions are written in their parent's location
NestedLeaves(name, L) ==
  {ObjectAssign([name |-> name, in |-> L], x) :
     x \in {[type |-> "string", required |-> TRUE], [type |-> "number"],
            [type |-> "number", required |-> TRUE], [type |-> "boolean"],
            [type |-> "number", default |-> Num(7)]}}

RECURSIVE Chains(_, _, _)
\* the definitions at level i of a chain of objects whose leaf is at level k
Chains(i, k, L) ==
  IF i >= k THEN NestedLeaves(LevelName(i), L)
  ELSE {ObjectAssign([name |-> LevelName(i), type |-> "object", in |-> L,
                      properties |-> <<c>>], x) :
          c \in Chains(i + 1, k, L), x \in {NoAttrs, [required |-> TRUE]}}

FirstDefs ==
  TopLeaves(LevelName(1))
    \cup UNION {Chains(1, k, L) : k \in 2..MaxDepth, L \in LocationSet}

\* the i-th top-level definition, i > 1: an object in the first definition's
\* location, named as the first definition's property at level i is
CompanionDefs(i, L) ==
  {[name |-> LevelName(i), type |-> "object", in |-> L,
    properties |-> <<[name |-> LevelName(i + 1), type |-> "number", in |-> L]>>]}

IsNested(d) == "properties" \in DOMAIN d

RECURSIVE SchemasFrom(_, _)
SchemasFrom(data, n) ==
  {data} \cup
    (IF n >= MaxDefs \/ ~IsNested(data[1]) THEN {}
     ELSE UNION {SchemasFrom(Append(data, c), n + 1) :
                   c \in CompanionDefs(n + 1, data[1].in)})

Schemas == UNION {SchemasFrom(<<d>>, 1) : d \in FirstDefs}

OptionChoices == {NoAttrs, [strict |-> FALSE], [strict |-> TRUE]}

Scalars ==
  {Str(<<"1">>), Str(<<"x">>), Str(<<"true">>), Str(<<"2020-01-01">>), Num(1), Null}
ArrayTexts ==
  {Str(<<"1", ",", "0">>), Str(<<"1", ",", "x">>), Str(<<"1", "|", "0">>)}
ObjectTexts == {Json(Null), Json(Obj(<<>>)), Obj(<<>>)}
NestedScalars == {Str(<<"1">>), Str(<<"x">>)}
UnknownKey == "z"

RECURSIVE RawFor(_, _), PairsFor(_, _)

\* the raw values a request carries for definition d, by d's place in the
\* schema: "first" (the first top-level definition), "companion" (a later
\* top-level definition) or "nested"
RawFor(d, place) ==
  IF place = "companion"
  THEN IF IsNested(d)
       THEN {Json(Obj(<<<<d.properties[1].name, Str(<<"x">>)>>>>))}
       ELSE {Str(<<"x">>)}
  ELSE IF IsNested(d)
  THEN LET inner == \A i \in 1..Len(d.properties) : ~IsNested(d.properties[i])
           objs == {Obj(ps) : ps \in PairsFor(d.properties, "nested")}
                     \cup (IF inner
                           THEN {Obj(Append(ps, <<UnknownKey, Str(<<"x">>)>>)) :
                                   ps \in PairsFor(d.properties, "nested")}
                           ELSE {})
       IN {Str(<<"x">>), Json(Null)} \cup objs \cup {Json(o) : o \in objs}
  ELSE IF place = "nested" THEN NestedScalars
  ELSE Scalars \cup (IF Flag(d, "isArray") THEN ArrayTexts ELSE {})
               \cup (IF d.type = "object" THEN ObjectTexts ELSE {})

\* the key/value pairs of a mapping for the definitions ds, each key absent
\* or present, in the definitions' order
PairsFor(ds, place) ==
  IF ds = <<>> THEN {<<>>}
  ELSE LET rest == PairsFor(Tail(ds), IF place = "first" THEN "companion" ELSE place)
       IN rest \cup {<<<<Head(ds).name, v>>>> \o r :
                       v \in RawFor(Head(ds), place), r \in rest}

\* An empty mapping is an empty object or, with absent, no mapping at all; a
\* flat schema is also run with a key that has no definition in its location.
Extras(data) ==
  IF IsNested(data[1]) THEN {[absent |-> FALSE, unknown |-> "none"]}
  ELSE {[absent |-> a, unknown |-> u] : a \in BOOLEAN, u \in LocationSet \cup {"none"}}

\* a key of location L without a definition there: the first definition's
\* name where that is defined for another location only
UnknownName(data, L) == IF data[1].in = L THEN UnknownKey ELSE data[1].name

\* every definition of a schema is in its first definition's location
MappingsFor(data, L, x) ==
  {IF ps = <<>> /\ x.unknown # L
   THEN (IF x.absent THEN Undef ELSE Obj(<<>>))
   ELSE Obj(IF x.unknown = L
            THEN Append(ps, <<UnknownName(data, L), Str(<<"x">>)>>) ELSE ps) :
     ps \in IF data[1].in = L THEN PairsFor(data, "first") ELSE {<<>>}}

Requests(data) ==
  UNION {[query : MappingsFor(data, "query", x), params : MappingsFor(data, "path", x),
          body : MappingsFor(data, "body", x), path : {Undef}] : x \in Extras(data)}

----------------------------------------------------------------------------
(* The sanitizer and its caller *)

Self == [definitions |-> definitions, options |-> options]

Init ==
  \E data \in Schemas, opts \in OptionChoices :
    \E r \in Requests(data) :
      /\ given = [data |-> data, options |-> opts, req |-> r]
      /\ definitions = Constructor(data, opts).definitions
      /\ options = Constructor(data, opts).options
      /\ req = r
      /\ lastCall = [op |-> "new"]

\* sanitizer.check(req)
Check ==
  /\ lastCall' = [op |-> "check", arg |-> req, out |-> check(Self, req, <<>>)]
  /\ UNCHANGED <<given, definitions, options, req>>

\* sanitizer.values(req)
Values ==
  /\ lastCall' = [op |-> "values", arg |-> req, out |-> values(Self, req).out]
  /\ req' = values(Self, req).req
  /\ UNCHANGED <<given, definitions, options>>

Next == Check \/ Values

Spec == Init /\ [][Next]_vars

----------------------------------------------------------------------------
(* What the claims speak of *)

\* the mapping of location L in request r, an absent mapping being empty
Mapping(r, L) == OrEmpty(r[ReqField(L)])

\* the names a classification list holds for location L, merged entries included
NamesIn(list, L) ==
  UNION {{list[i].params[j] : j \in 1..Len(list[i].params)} :
           i \in {i \in 1..Len(list) : list[i].where = L}}

CheckReturned == lastCall.op = "check" /\ Returned(lastCall.out)
ValuesReturned == lastCall.op = "values" /\ Returned(lastCall.out)

HasDefinition(L, k) ==
  \E i \in 1..Len(definitions) : definitions[i].in = L /\ definitions[i].name = k

\* request r without key k in location L
Without(r, L, k) ==
  [r EXCEPT ![ReqField(L)] = Obj(SelectSeq(Mapping(r, L)[2], LAMBDA kv : kv[1] # k))]

\* what an object-typed field's value holds: text is parsed, a structured
\* value is itself
ParsedOf(v) == IF IsString(v) THEN JSONParse(v).value ELSE v
Parses(v) == IsObj(v) \/ (IsString(v) /\ Returned(JSONParse(v)))

----------------------------------------------------------------------------
(* C2: a key of a location's mapping that has no definition with its name in *)
(* that location is reported in unknown for the location, with status false, *)
(* by a sanitizer built with strict = true; built with strict false or       *)
(* omitted, the key is in none of the location's lists and the status is the *)
(* status of the same request without the key.                               *)
C2_UnknownKeys ==
  CheckReturned =>
    \A L \in LocationSet :
      \A k \in {kv[1] : kv \in {Mapping(lastCall.arg, L)[2][i] :
                                   i \in 1..Len(Mapping(lastCall.arg, L)[2])}} :
        ~HasDefinition(L, k) =>
          IF Flag(given.options, "strict")
          THEN /\ k \in NamesIn(lastCall.out.unknown, L)
               /\ lastCall.out.status = FALSE
          ELSE /\ k \notin NamesIn(lastCall.out.unknown, L)
                         \cup NamesIn(lastCall.out.missing, L)
                         \cup NamesIn(lastCall.out.malformed, L)
               /\ lastCall.out.status
                    = check(Self, Without(lastCall.arg, L, k), <<>>).status

\* a strict sanitizer has reported a key without definition
C2_Witness ==
  /\ CheckReturned
  /\ Flag(given.options, "strict")
  /\ \E L \in LocationSet :
       /\ ~HasDefinition(L, UnknownName(given.data, L))
       /\ Includes(ObjectKeys(Mapping(lastCall.arg, L)), UnknownName(given.data, L))
       /\ UnknownName(given.data, L) \in NamesIn(lastCall.out.unknown, L)

(* C3: the status check returns is true exactly when every params list of    *)
(* every entry of missing, unknown and malformed is empty, the entries       *)
(* merged in from nested object fields included.                             *)
C3_StatusIffEmpty ==
  CheckReturned =>
    (lastCall.out.status <=>
       \A list \in {lastCall.out.missing, lastCall.out.unknown, lastCall.out.malformed} :
         \A i \in 1..Len(list) : list[i].params = <<>>)

\* check has returned false on account of a nested field alone
C3_Witness ==
  /\ CheckReturned
  /\ ~lastCall.out.status
  /\ \A list \in {lastCall.out.missing, lastCall.out.unknown, lastCall.out.malformed} :
       \A i \in 1..3 : list[i].params = <<>>
  /\ \E i \in 4..Len(lastCall.out.malformed) : lastCall.out.malformed[i].params # <<>>

----------------------------------------------------------------------------
\* the <<location, parent.child>> of every required property that the parsed
\* value of a present object field lacks, at any depth; defs are the
\* definitions read from the mapping obj
RECURSIVE NestedMissing(_, _)
NestedMissing(defs, obj) ==
  UNION {LET d == defs[i]
             v == Lookup(obj, d.name)
         IN IF IsNested(d) /\ Includes(ObjectKeys(obj), d.name) /\ Parses(v)
            THEN {<<d.properties[j].in, d.name \o "." \o d.properties[j].name>> :
                    j \in {j \in 1..Len(d.properties) :
                             /\ Flag(d.properties[j], "required")
                             /\ ~Includes(ObjectKeys(ParsedOf(v)), d.properties[j].name)}}
                   \cup NestedMissing(d.properties, ParsedOf(v))
            ELSE {} : i \in 1..Len(defs)}

DefinitionsIn(L) == SelectSeq(definitions, LAMBDA d : d.in = L)

(* C1: check reports in missing for L every required definition of location  *)
(* L whose name is no key of L's mapping, and reports as parent.child every  *)
(* required nested property that the parsed value of a present object field  *)
(* lacks.                                                                    *)
C1_RequiredReported ==
  CheckReturned =>
    /\ \A i \in 1..Len(definitions) :
         (/\ Flag(definitions[i], "required")
          /\ ~Includes(ObjectKeys(Mapping(lastCall.arg, definitions[i].in)),
                       definitions[i].name))
           => definitions[i].name \in NamesIn(lastCall.out.missing, definitions[i].in)
    /\ \A L \in LocationSet :
         \A m \in NestedMissing(DefinitionsIn(L), Mapping(lastCall.arg, L)) :
           m[2] \in NamesIn(lastCall.out.missing, m[1])

\* the dot-joined paths of the definitions of a schema
RECURSIVE QualifiedNames(_, _)
QualifiedNames(defs, prefix) ==
  UNION {{prefix \o defs[i].name}
           \cup (IF IsNested(defs[i])
                 THEN QualifiedNames(defs[i].properties, prefix \o defs[i].name \o ".")
                 ELSE {}) : i \in 1..Len(defs)}

(* C4: every name check puts in missing, unknown or malformed is a qualified *)
(* field name: the dot-joined path from the schema root to the field (a      *)
(* bare name at top level, a.b.c for c inside b inside a).                   *)
C4_QualifiedNames ==
  CheckReturned =>
    \A L \in LocationSet :
      /\ NamesIn(lastCall.out.missing, L) \cup NamesIn(lastCall.out.malformed, L)
           \subseteq QualifiedNames(definitions, "")
      /\ NamesIn(lastCall.out.unknown, L)
           \subseteq {ObjectKeys(Mapping(lastCall.arg, L))[i] :
                        i \in 1..Len(ObjectKeys(Mapping(lastCall.arg, L)))}
                      \cup {q \o "." \o UnknownKey : q \in QualifiedNames(definitions, "")}

(* C5: in a Check Result no name is both among the missing names and among   *)
(* the malformed names of one location, names merged in from nested checks   *)
(* included.                                                                 *)
C5_MissingNotMalformed ==
  CheckReturned =>
    \A L \in LocationSet :
      NamesIn(lastCall.out.missing, L) \cap NamesIn(lastCall.out.malformed, L) = {}

\* values(r) with every absent mapping of r made an empty one
Filled(r) ==
  [f \in DOMAIN r |-> IF f \in {"query", "params", "body"} THEN OrEmpty(r[f]) ELSE r[f]]

(* C7: check and values return for a request with an absent mapping what     *)
(* they return for the request with that mapping empty, and do not fail.     *)
C7_AbsentAsEmpty ==
  /\ lastCall.op = "check" =>
       lastCall.out = check(Self, Filled(lastCall.arg), <<>>)
  /\ lastCall.op = "values" =>
       lastCall.out = values(Self, Filled(lastCall.arg)).out

(* C8: after any sequence of check and values calls the caller's query, path *)
(* and body mappings hold the keys and values the caller built them with.    *)
C8_InputsUntouched == req = given.req

\* every object-typed field of defs that obj carries holds a structured value
\* or text that parses, and so on inside it
RECURSIVE ObjectValuesParse(_, _)
ObjectValuesParse(defs, obj) ==
  \A i \in 1..Len(defs) :
    (defs[i].type = "object" /\ Includes(ObjectKeys(obj), defs[i].name)) =>
      /\ Parses(Lookup(obj, defs[i].name))
      /\ IsNested(defs[i]) =>
           ObjectValuesParse(defs[i].properties, ParsedOf(Lookup(obj, defs[i].name)))

(* C9: on an input where every object-typed field's value is a structured    *)
(* object or text that parses, check returns a Check Result and does not     *)
(* raise.                                                                    *)
C9_ChecksReturn ==
  (/\ lastCall.op = "check"
   /\ \A L \in LocationSet : ObjectValuesParse(DefinitionsIn(L), Mapping(lastCall.arg, L)))
    => Returned(lastCall.out)

(* C10: for an object field with nested properties in query, path or body,   *)
(* a required nested property that is a key of the field's parsed value is   *)
(* not reported missing, and a nested property whose value breaks its type   *)
(* rule is reported malformed as parent.child, in the parent's location.     *)
C10_NestedInParentLocation ==
  CheckReturned =>
    \A i \in 1..Len(definitions) :
      LET d == definitions[i]
          v == Lookup(Mapping(lastCall.arg, d.in), d.name)
      IN (IsNested(d) /\ IsString(v) /\ Returned(JSONParse(v))) =>
           \A j \in 1..Len(d.properties) :
             LET p == d.properties[j]
                 here == Includes(ObjectKeys(ParsedOf(v)), p.name)
             IN /\ (Flag(p, "required") /\ here) =>
                     (d.name \o "." \o p.name) \notin NamesIn(lastCall.out.missing, d.in)
                /\ (here /\ TypeRule(p, Lookup(ParsedOf(v), p.name)) = "malformed") =>
                     (d.name \o "." \o p.name) \in NamesIn(lastCall.out.malformed, d.in)

----------------------------------------------------------------------------
\* the raw value values reads for top-level definition d in request r
RawOf(r, d) == Lookup(Mapping(r, d.in), d.name)
\* the result mapping of d's location holds d's name
Included(out, d) == Includes(ObjectKeys(out[d.in]), d.name)
\* the raw value is the text of a JSON null handed to an object-typed field
NullText(d, raw) ==
  d.type = "object" /\ IsString(raw) /\ Returned(JSONParse(raw))
    /\ JSONParse(raw).value = Null

(* C6 as stated: for a top-level definition whose raw value is absent or     *)
(* null, values omits the name when the default is null and stores the       *)
(* default verbatim otherwise; a field whose raw value is present is always  *)
(* included under its location.                                              *)
C6_DefaultsAsStated ==
  ValuesReturned =>
    \A i \in 1..Len(definitions) :
      LET d == definitions[i]
          raw == RawOf(lastCall.arg, d)
      IN IF IsNullish(raw)
         THEN IF d.default = Null THEN ~Included(lastCall.out, d)
              ELSE Included(lastCall.out, d)
                     /\ Lookup(lastCall.out[d.in], d.name) = d.default
         ELSE Included(lastCall.out, d)

(* C6 amended: as above, but a present raw value that is the text of a JSON  *)
(* null for an object-typed field is omitted; every other present raw value  *)
(* is included.                                                              *)
C6_DefaultsAmended ==
  ValuesReturned =>
    \A i \in 1..Len(definitions) :
      LET d == definitions[i]
          raw == RawOf(lastCall.arg, d)
      IN IF IsNullish(raw)
         THEN IF d.default = Null THEN ~Included(lastCall.out, d)
              ELSE Included(lastCall.out, d)
                     /\ Lookup(lastCall.out[d.in], d.name) = d.default
         ELSE Included(lastCall.out, d) <=> ~NullText(d, raw)

\* values has stored the default of a number field, a string, as it is
C6_Witness ==
  /\ ValuesReturned
  /\ \E i \in 1..Len(definitions) :
       /\ definitions[i].type = "number"
       /\ IsNullish(RawOf(lastCall.arg, definitions[i]))
       /\ definitions[i].default = Str(<<"d">>)
       /\ Lookup(lastCall.out[definitions[i].in], definitions[i].name) = Str(<<"d">>)

====
